---- MODULE Spec2Model ----
(***************************************************************************)
(* A model of the `expander` crate (src/src/lib.rs): Expander::write_to    *)
(* and expand_to_file, run by several concurrent calls that share nothing  *)
(* but the destination directory.                                          *)
(*                                                                         *)
(* Text is a sequence of short strings, each standing for a run of bytes.  *)
(* A file is the sequence of its bytes; "NUL" is the zero byte the         *)
(* operating system supplies when a handle writes beyond the end of file.  *)
(***************************************************************************)
EXTENDS Integers, Sequences, FiniteSets, TLC

\* Number of concurrent calls of write_to.
NCalls == 3

Calls == 1..NCalls

\* The two calls of the argument-coverage specification SpecArgs.
PairCalls == {1, 2}

\* Option<T>: None is the empty sequence, Some(v) the sequence of v alone.
None == <<>>

Some(v) == <<v>>

(***************************************************************************)
(* Inputs                                                                  *)
(***************************************************************************)

\* Token streams handed to write_to: "x" and "y" are items, "," is a
\* separator the formatters normalise, "!" makes the text unparsable.
TokenStreams == << <<"x">>, <<"x", ",">>, <<"y">>, <<"x", "!">> >>

\* What is given to add_comment.
Comments == << None, Some("c") >>

\* RustFmt: No, or Yes { allow_failure } (edition and channel only become
\* subprocess arguments).
RustFmtNo == [yes |-> FALSE, allow_failure |-> FALSE]

RustFmtYes(allow) == [yes |-> TRUE, allow_failure |-> allow]

RustFmts == << RustFmtNo, RustFmtYes(TRUE), RustFmtYes(FALSE) >>

FilenameBases == << "foo", "bar" >>

Drys == << FALSE, TRUE >>

\* Expander::add_comment: the comment is wrapped as "/* {} */\n".
add_comment(comment) ==
    IF comment = None THEN None ELSE Some("/* " \o comment[1] \o " */\n")

\* An Expander as built by new / add_comment / fmt_full / dry, with the tokens
\* of the call.  The verbose flag only guards eprintln! and standard error is
\* not part of the state, so it has no field here.
Expander(base, comment, rustfmt, dry, tokens) ==
    [filename_base |-> base, comment |-> add_comment(comment), rustfmt |-> rustfmt,
     dry |-> dry, tokens |-> tokens]

\* The argument combinations of one call, numbered 1..NumArgs.
NumArgs == Len(FilenameBases) * Len(Comments) * Len(RustFmts) * Len(Drys) * Len(TokenStreams)

ArgsAt(i) ==
    LET i1 == i - 1
        i2 == i1 \div Len(TokenStreams)
        i3 == i2 \div Len(Drys)
        i4 == i3 \div Len(RustFmts)
        i5 == i4 \div Len(Comments)
    IN  Expander(FilenameBases[(i5 % Len(FilenameBases)) + 1],
                 Comments[(i4 % Len(Comments)) + 1],
                 RustFmts[(i3 % Len(RustFmts)) + 1],
                 Drys[(i2 % Len(Drys)) + 1],
                 TokenStreams[(i1 % Len(TokenStreams)) + 1])

(***************************************************************************)
(* Text to bytes: TokenStream::to_string, prettyplease, rustfmt            *)
(***************************************************************************)

RECURSIVE JoinTokens(_)
\* tokens.to_string(): the tokens separated by single spaces.
JoinTokens(tokens) ==
    IF Len(tokens) = 0 THEN <<>>
    ELSE IF Len(tokens) = 1 THEN <<tokens[1]>>
    ELSE <<tokens[1], " ">> \o JoinTokens(Tail(tokens))

IsItem(ch) == ch \in {"x", "y"}

\* syn::parse_file(&token_str).is_ok()
SynParseOk(token_str) == \A i \in 1..Len(token_str) : token_str[i] # "!"

RECURSIVE Render(_)
\* The canonical layout both formatters produce: every item followed by a
\* comma and a newline, whatever separators the input had.
Render(s) ==
    IF Len(s) = 0 THEN <<>>
    ELSE IF IsItem(s[1]) THEN <<s[1], ",", "\n">> \o Render(Tail(s))
    ELSE Render(Tail(s))

\* prettyplease::unparse(&sf).into_bytes()
PrettyUnparse(token_str) == Render(token_str)

\* rustfmt's exit status and standard output for the text on its stdin.
RustfmtSuccess(content) == SynParseOk(content)

RustfmtStdout(content) == Render(content)

\* What the environment does to the rustfmt subprocess.
SubprocessEnvs == {"runs", "spawn_err", "stdin_err", "wait_err"}

\* Result<T, std::io::Error>, and the two other ways a call can stand: not
\* returned yet, and unwound by a panic.
Ok(v) == [kind |-> "Ok", val |-> v]

Err(e) == [kind |-> "Err", val |-> e]

Pending == [kind |-> "pending", val |-> None]

Panicked == [kind |-> "panic", val |-> None]

run_rustfmt_on_content_Stdout(content, allow_failure, env) ==
    IF env = "spawn_err" THEN Err("spawn")
    ELSE IF env = "stdin_err" THEN Err("stdin")
    ELSE IF env = "wait_err" THEN Err("wait")
    ELSE IF ~RustfmtSuccess(content)
         THEN IF allow_failure THEN Ok(RustfmtStdout(content)) ELSE Err("rustfmt failed")
         ELSE Ok(RustfmtStdout(content))

run_rustfmt_on_content_Lenient(content, allow_failure, env) ==
    IF env = "spawn_err" THEN Err("spawn")
    ELSE IF env = "stdin_err" THEN Err("stdin")
    ELSE IF env = "wait_err" THEN Err("wait")
    ELSE IF ~RustfmtSuccess(content)
         THEN Ok(content)
         ELSE Ok(RustfmtStdout(content))

\* run_rustfmt_on_content: the subprocess may fail to spawn, to take its
\* input or to be waited for (all propagated by `?`); a non-zero exit is
\* tolerated only with allow_failure.
run_rustfmt_on_content(content, allow_failure, env) ==
    IF env = "spawn_err" THEN Err("spawn")
    ELSE IF env = "stdin_err" THEN Err("stdin")
    ELSE IF env = "wait_err" THEN Err("wait")
    ELSE IF ~RustfmtSuccess(content)
         THEN IF allow_failure THEN Ok(content) ELSE Err("rustfmt failed")
         ELSE Ok(RustfmtStdout(content))

maybe_run_rustfmt_on_content_Always(rustfmt, token_str, env) ==
    run_rustfmt_on_content(token_str, TRUE, env)

\* maybe_run_rustfmt_on_content: rustfmt only for RustFmt::Yes.
maybe_run_rustfmt_on_content(rustfmt, token_str, env) ==
    IF rustfmt.yes
    THEN run_rustfmt_on_content(token_str, rustfmt.allow_failure, env)
    ELSE Ok(token_str)

\* Whether expand_to_file parses the text and prints it with prettyplease.
UsesPretty(feature_pretty, token_str) == feature_pretty /\ SynParseOk(token_str)

\* Whether expand_to_file spawns rustfmt for this text.
SpawnsRustfmt(feature_pretty, rustfmt, token_str) ==
    ~UsesPretty(feature_pretty, token_str) /\ rustfmt.yes

FormatBytes_SurfacesParseError(feature_pretty, rustfmt, token_str, env) ==
    IF feature_pretty
    THEN IF SynParseOk(token_str)
         THEN Ok(PrettyUnparse(token_str))
         ELSE Err("syn")
    ELSE maybe_run_rustfmt_on_content(rustfmt, token_str, env)

\* The `bytes` block of expand_to_file, for both settings of the `pretty`
\* cargo feature.
FormatBytes(feature_pretty, rustfmt, token_str, env) ==
    IF feature_pretty
    THEN IF SynParseOk(token_str)
         THEN Ok(PrettyUnparse(token_str))
         ELSE maybe_run_rustfmt_on_content(rustfmt, token_str, env)
    ELSE maybe_run_rustfmt_on_content(rustfmt, token_str, env)

(***************************************************************************)
(* Digest and naming                                                       *)
(***************************************************************************)

ByteCode(ch) ==
    CASE ch = "x" -> 1 [] ch = "y" -> 2 [] ch = "," -> 3
      [] ch = " " -> 4 [] ch = "!" -> 5 [] ch = "\n" -> 6 [] OTHER -> 0

RECURSIVE Encode(_)
Encode(bytes) == IF Len(bytes) = 0 THEN 1 ELSE ByteCode(bytes[1]) + 7 * Encode(Tail(bytes))

\* Blake2s256::digest: a 32-byte digest, modelled as an encoding that is
\* injective on the texts of the model (no collisions).
Blake2s256(bytes) ==
    [i \in 1..32 |-> IF i <= 2 THEN (Encode(bytes) \div (IF i = 1 THEN 1 ELSE 256)) % 256 ELSE 0]

TABLE == <<"0", "1", "2", "3", "4", "5", "6", "7", "8", "9", "a", "b", "c", "d", "e", "f">>

RECURSIVE HexOf(_, _)
HexOf(digest, n) ==
    IF n = 0 THEN ""
    ELSE HexOf(digest, n - 1)
           \o TABLE[((digest[n] \div 16) % 16) + 1] \o TABLE[(digest[n] % 16) + 1]

RECURSIVE HighHexOf(_, _)
HighHexOf(digest, n) ==
    IF n = 0 THEN ""
    ELSE HighHexOf(digest, n - 1)
           \o TABLE[((digest[n] \div 16) % 16) + 1] \o TABLE[((digest[n] \div 16) % 16) + 1]

make_suffix_HighNibbleTwice(digest) == HighHexOf(digest, 6)

\* make_suffix: the leading 6 bytes as 12 lowercase hex characters.
make_suffix(digest) == HexOf(digest, 6)

\* dest_dir.join(filename_base) + "-" + shortened_hex + ".rs"
DestPath(filename_base, bytes) ==
    "out/" \o filename_base \o "-" \o make_suffix(Blake2s256(bytes)) \o ".rs"

ExpandDest_HashesHeader(expander, bytes) ==
    DestPath(expander.filename_base, expander.comment \o bytes)

\* The destination expand_to_file derives for an Expander: only the filename
\* base and the formatted bytes enter it.
ExpandDest(expander, bytes) == DestPath(expander.filename_base, bytes)

\* quote! { include!( #dest ); }
IncludeRef(dest) == [include |-> dest]

(***************************************************************************)
(* Files                                                                   *)
(***************************************************************************)

RECURSIVE Zeros(_)
Zeros(n) == IF n <= 0 THEN <<>> ELSE <<"NUL">> \o Zeros(n - 1)

\* write(2) through a handle at offset `off`: a gap beyond the end of the
\* file reads as zero bytes.
WriteAt(content, off, data) ==
    LET padded == content \o Zeros(off - Len(content))
    IN  SubSeq(padded, 1, off) \o data \o SubSeq(padded, off + Len(data) + 1, Len(padded))

OpenedContent_Kept(content) == content

\* OpenOptions::new().write(true).create(true).truncate(true).open(): the
\* content of the file right after the open, whatever it held before.
OpenedContent(content) == <<>>

(***************************************************************************)
(* State                                                                   *)
(***************************************************************************)

VARIABLES
    feature_pretty, \* whether the crate is built with the `pretty` feature
    args,           \* per call: the Expander and the tokens it is called with
    pc,             \* per call: its position in write_to / expand_to_file
    bytes,          \* per call: the local `bytes` of expand_to_file
    dest,           \* per call: the local `dest` (the path with the suffix)
    off,            \* per call: the offset of its file handle
    locked,         \* per call: whether it holds the file_guard lock
    result,         \* per call: what write_to returned
    files,          \* the destination directory: path -> content
    ops,            \* per call: the system operations it made, in order
    subenv,         \* per call: what happened to the rustfmt it spawned
    faulty          \* per call: whether an open, lock or write failed under it

vars ==
    <<feature_pretty, args, pc, bytes, dest, off, locked, result, files, ops, subenv,
      faulty>>

token_str(c) == JoinTokens(args[c].tokens)

Exists(p) == p \in DOMAIN files

Content(p) == IF Exists(p) THEN files[p] ELSE <<>>

\* file_guard: no other call holds the exclusive lock on bytes 0..64 of p.
LockFree(p) == \A d \in Calls : locked[d] => dest[d] # p

\* The call entered through maybe_write_to: its arguments carry the
\* Result<TokenStream, syn::Error> it was given.
IsMaybe(c) == "maybe_tokens" \in DOMAIN args[c]

\* Ok(Ok(self.write_to(tokens, dest_dir)?)): what write_to returns, seen by
\* the caller of maybe_write_to; `?` hands an io::Error through as it is.
Wrapped(c, r) == IF IsMaybe(c) /\ r.kind = "Ok" THEN Ok(r) ELSE r

Returns(c, r) ==
    /\ result' = [result EXCEPT ![c] = Wrapped(c, r)]
    /\ pc' = [pc EXCEPT ![c] = "done"]

Logged(c, op) == ops' = [ops EXCEPT ![c] = Append(@, op)]

\* The arguments of a call that is never made.
NoArgs == Expander("foo", None, RustFmtNo, TRUE, <<>>)

InitLocals ==
    /\ bytes = [c \in Calls |-> <<>>]
    /\ dest = [c \in Calls |-> ""]
    /\ off = [c \in Calls |-> 0]
    /\ locked = [c \in Calls |-> FALSE]
    /\ result = [c \in Calls |-> Pending]
    /\ files = [p \in {} |-> <<>>]
    /\ ops = [c \in Calls |-> <<>>]
    /\ subenv = [c \in Calls |-> "none"]
    /\ faulty = [c \in Calls |-> FALSE]

\* The arguments of the concurrency specification: non-dry calls on the
\* same tokens and filename base, with and without a header.
ConcArgs ==
    << Expander("foo", None, RustFmtNo, FALSE, <<"x">>),
       Expander("foo", Some("c"), RustFmtNo, FALSE, <<"x">>) >>

\* Calls do not know their own number, so each multiset of arguments is
\* listed once, in non-decreasing order.
Sorted(f, n) == \A c \in 1..(n - 1) : f[c] <= f[c + 1]

Init ==
    /\ feature_pretty \in BOOLEAN
    /\ \E f \in [Calls -> 1..Len(ConcArgs)] :
          /\ Sorted(f, NCalls)
          /\ args = [c \in Calls |-> ConcArgs[f[c]]]
    /\ pc = [c \in Calls |-> "start"]
    /\ InitLocals

\* Two calls with every combination of arguments; the other calls are never
\* made.
InitArgs ==
    /\ feature_pretty \in BOOLEAN
    /\ \E f \in [PairCalls -> 1..NumArgs] :
          /\ Sorted(f, Cardinality(PairCalls))
          /\ args = [c \in Calls |-> IF c \in PairCalls THEN ArgsAt(f[c]) ELSE NoArgs]
    /\ pc = [c \in Calls |-> IF c \in PairCalls THEN "start" ELSE "idle"]
    /\ InitLocals

\* The syn::Error handed to maybe_write_to.
SynError == Err("syn")

\* The arguments of a call of maybe_write_to: the Expander and the Result
\* it is given; `tokens` is what reaches write_to, nothing for an Err.
MaybeArgs(expander, is_ok) ==
    [filename_base |-> expander.filename_base, comment |-> expander.comment,
     rustfmt |-> expander.rustfmt, dry |-> expander.dry,
     tokens |-> IF is_ok THEN expander.tokens ELSE <<>>,
     maybe_tokens |-> IF is_ok THEN Ok(expander.tokens) ELSE SynError]

\* The call that enters through maybe_write_to and the call that enters
\* through write_to.
MaybeCall == 1

PlainCall == 2

\* One call of maybe_write_to, given Ok(tokens) or Err, and one call of
\* write_to on the same Expander and tokens.
InitMaybe ==
    /\ feature_pretty \in BOOLEAN
    /\ \E i \in 1..NumArgs, is_ok \in BOOLEAN :
          args = [c \in Calls |-> IF c = MaybeCall THEN MaybeArgs(ArgsAt(i), is_ok)
                                  ELSE IF c = PlainCall THEN ArgsAt(i)
                                  ELSE NoArgs]
    /\ pc = [c \in Calls |-> IF c = MaybeCall THEN "maybe"
                              ELSE IF c = PlainCall THEN "start"
                              ELSE "idle"]
    /\ InitLocals

\* Two calls with identical arguments, whatever these are.
InitSame ==
    /\ feature_pretty \in BOOLEAN
    /\ \E i \in 1..NumArgs :
          args = [c \in Calls |-> IF c \in PairCalls THEN ArgsAt(i) ELSE NoArgs]
    /\ pc = [c \in Calls |-> IF c \in PairCalls THEN "start" ELSE "idle"]
    /\ InitLocals

(***************************************************************************)
(* Operations                                                              *)
(***************************************************************************)

IsDry_Never(expander) == FALSE

\* if self.dry
IsDry(expander) == expander.dry

\* The body of Expander::write_to up to the open of the destination file:
\* the dry bypass, else expand_to_file's formatting, digest and path.
write_to(c) ==
    /\ UNCHANGED <<feature_pretty, args, off, locked, files, faulty>>
    /\ IF IsDry(args[c])
       THEN /\ Returns(c, Ok(args[c].tokens))
            /\ UNCHANGED <<bytes, dest, ops, subenv>>
       ELSE \E env \in SubprocessEnvs :
              LET spawns == SpawnsRustfmt(feature_pretty, args[c].rustfmt, token_str(c))
                  r == FormatBytes(feature_pretty, args[c].rustfmt, token_str(c), env)
              IN  /\ spawns \/ env = "runs"
                  /\ subenv' = [subenv EXCEPT ![c] = IF spawns THEN env ELSE "none"]
                  /\ ops' = [ops EXCEPT ![c] = IF spawns THEN Append(@, "spawn") ELSE @]
                  /\ IF r.kind = "Ok"
                     THEN /\ bytes' = [bytes EXCEPT ![c] = r.val]
                          /\ dest' = [dest EXCEPT ![c] = ExpandDest(args[c], r.val)]
                          /\ pc' = [pc EXCEPT ![c] = "open"]
                          /\ UNCHANGED result
                     ELSE /\ Returns(c, Err(r.val))
                          /\ UNCHANGED <<bytes, dest>>

\* A call of Expander::write_to.
WriteTo(c) == pc[c] = "start" /\ write_to(c)

IsSynErr_Never(maybe_tokens) == FALSE

\* match maybe_tokens.into() { Ok(tokens) => .., err => Ok(err) }
IsSynErr(maybe_tokens) == maybe_tokens.kind = "Err"

\* A call of Expander::maybe_write_to: a syn::Error is handed back inside
\* Ok, tokens go to write_to.
MaybeWriteTo(c) ==
    /\ pc[c] = "maybe"
    /\ IF IsSynErr(args[c].maybe_tokens)
       THEN /\ result' = [result EXCEPT ![c] = Ok(args[c].maybe_tokens)]
            /\ pc' = [pc EXCEPT ![c] = "done"]
            /\ UNCHANGED <<feature_pretty, args, bytes, dest, off, locked, files, ops,
                           subenv, faulty>>
       ELSE write_to(c)

Open_AlsoUnsuffixed(c) ==
    /\ pc[c] = "open"
    /\ UNCHANGED <<feature_pretty, args, bytes, dest, locked, subenv, result, faulty>>
    /\ files' = (dest[c] :> OpenedContent(Content(dest[c])))
                   @@ (("out/" \o args[c].filename_base) :> <<>>) @@ files
    /\ off' = [off EXCEPT ![c] = 0]
    /\ pc' = [pc EXCEPT ![c] = "probe"]
    /\ Logged(c, "open")

\* fs::OpenOptions ... .open(dest)?
Open(c) ==
    /\ pc[c] = "open"
    /\ UNCHANGED <<feature_pretty, args, bytes, dest, locked, subenv>>
    /\ \E io_ok \in BOOLEAN :
          IF io_ok
          THEN /\ files' = (dest[c] :> OpenedContent(Content(dest[c]))) @@ files
               /\ off' = [off EXCEPT ![c] = 0]
               /\ pc' = [pc EXCEPT ![c] = "probe"]
               /\ Logged(c, "open")
               /\ UNCHANGED <<result, faulty>>
          ELSE /\ Returns(c, Err("io"))
               /\ faulty' = [faulty EXCEPT ![c] = TRUE]
               /\ UNCHANGED <<files, off, ops>>

\* let Ok(mut f) = file_guard::try_lock(..) else { .. }: any Err, contention
\* or not, takes the else branch.
TryLock(c) ==
    /\ pc[c] = "probe"
    /\ UNCHANGED <<feature_pretty, args, bytes, dest, off, result, files, subenv>>
    /\ Logged(c, "try_lock")
    /\ \E platform_ok \in BOOLEAN :
          IF platform_ok /\ LockFree(dest[c])
          THEN /\ locked' = [locked EXCEPT ![c] = TRUE]
               /\ pc' = [pc EXCEPT ![c] = "comment"]
               /\ UNCHANGED faulty
          ELSE /\ pc' = [pc EXCEPT ![c] = "wait"]
               /\ faulty' = [faulty EXCEPT ![c] = @ \/ ~platform_ok]
               /\ UNCHANGED locked

LockWait_Unblocked(c) ==
    /\ pc[c] = "wait"
    /\ UNCHANGED <<feature_pretty, args, bytes, dest, off, files, subenv, result, faulty>>
    /\ Logged(c, "lock")
    /\ locked' = [locked EXCEPT ![c] = TRUE]
    /\ pc' = [pc EXCEPT ![c] = "waited"]

\* file_guard::lock(..).expect(..): blocks while the lock is held; an error
\* panics.
LockWait(c) ==
    /\ pc[c] = "wait"
    /\ UNCHANGED <<feature_pretty, args, bytes, dest, off, files, subenv>>
    /\ Logged(c, "lock")
    /\ \E platform_ok \in BOOLEAN :
          IF platform_ok
          THEN /\ LockFree(dest[c])
               /\ locked' = [locked EXCEPT ![c] = TRUE]
               /\ pc' = [pc EXCEPT ![c] = "waited"]
               /\ UNCHANGED <<result, faulty>>
          ELSE /\ Returns(c, Panicked)
               /\ faulty' = [faulty EXCEPT ![c] = TRUE]
               /\ UNCHANGED locked

\* return Ok(quote! { include!( #dest ); }) of the else branch; `_lock` is
\* dropped.
ReturnWaiter(c) ==
    /\ pc[c] = "waited"
    /\ locked' = [locked EXCEPT ![c] = FALSE]
    /\ Returns(c, Ok(IncludeRef(dest[c])))
    /\ UNCHANGED <<feature_pretty, args, bytes, dest, off, files, ops, subenv, faulty>>

\* f.write_all(data)?: everything is written, or a strict prefix and the
\* error returns from expand_to_file, dropping the guard.
WriteAll(c, data, next) ==
    \E n \in 0..Len(data) :
       /\ files' = [files EXCEPT ![dest[c]] = WriteAt(@, off[c], SubSeq(data, 1, n))]
       /\ off' = [off EXCEPT ![c] = @ + n]
       /\ Logged(c, "write")
       /\ IF n = Len(data)
          THEN /\ pc' = [pc EXCEPT ![c] = next]
               /\ UNCHANGED <<result, locked, faulty>>
          ELSE /\ Returns(c, Err("io"))
               /\ locked' = [locked EXCEPT ![c] = FALSE]
               /\ faulty' = [faulty EXCEPT ![c] = TRUE]

\* if let Some(comment) = comment.into() { f.write_all(comment.as_bytes())?; }
WriteComment(c) ==
    /\ pc[c] = "comment"
    /\ UNCHANGED <<feature_pretty, args, bytes, dest, subenv>>
    /\ IF args[c].comment # None
       THEN WriteAll(c, args[c].comment, "bytes")
       ELSE /\ pc' = [pc EXCEPT ![c] = "bytes"]
            /\ UNCHANGED <<off, locked, result, files, ops, faulty>>

\* f.write_all(&bytes)?
WriteBytes(c) ==
    /\ pc[c] = "bytes"
    /\ UNCHANGED <<feature_pretty, args, bytes, dest, subenv>>
    /\ WriteAll(c, bytes[c], "return")

Return_KeepsGuard(c) ==
    /\ pc[c] = "return"
    /\ Returns(c, Ok(IncludeRef(dest[c])))
    /\ UNCHANGED <<feature_pretty, args, bytes, dest, off, locked, files, ops, subenv,
                   faulty>>

\* Ok(quote! { include!( #dest ); }) at the end of expand_to_file; the guard
\* `f` is dropped.
Return(c) ==
    /\ pc[c] = "return"
    /\ locked' = [locked EXCEPT ![c] = FALSE]
    /\ Returns(c, Ok(IncludeRef(dest[c])))
    /\ UNCHANGED <<feature_pretty, args, bytes, dest, off, files, ops, subenv, faulty>>

Next ==
    \E c \in Calls :
       \/ WriteTo(c)
       \/ Open(c)
       \/ TryLock(c)
       \/ LockWait(c)
       \/ ReturnWaiter(c)
       \/ WriteComment(c)
       \/ WriteBytes(c)
       \/ Return(c)

Spec == Init /\ [][Next]_vars

SpecArgs == InitArgs /\ [][Next]_vars

\* One step of call c.
CallStep(c) ==
    \/ WriteTo(c)
    \/ Open(c)
    \/ TryLock(c)
    \/ LockWait(c)
    \/ ReturnWaiter(c)
    \/ WriteComment(c)
    \/ WriteBytes(c)
    \/ Return(c)

\* Concurrent calls under fair scheduling: a call that can take a step
\* eventually takes one; a formatter subprocess is part of the first step,
\* so it terminates.
SpecFair == Init /\ [][Next]_vars /\ \A c \in Calls : WF_vars(CallStep(c))

\* A call is in flight from its first step to its return.
InFlight(c) == pc[c] \notin {"idle", "start", "maybe", "done"}

\* Calls made one after the other: a call begins only when no other call is
\* in flight.
NextSeq ==
    \E c \in Calls :
       \/ (\A d \in Calls : ~InFlight(d)) /\ WriteTo(c)
       \/ Open(c)
       \/ TryLock(c)
       \/ LockWait(c)
       \/ ReturnWaiter(c)
       \/ WriteComment(c)
       \/ WriteBytes(c)
       \/ Return(c)

SpecSeq == InitSame /\ [][NextSeq]_vars

\* A call of maybe_write_to and a call of write_to, one after the other in
\* either order.
NextMaybe ==
    \E c \in Calls :
       \/ (\A d \in Calls : ~InFlight(d)) /\ MaybeWriteTo(c)
       \/ (\A d \in Calls : ~InFlight(d)) /\ WriteTo(c)
       \/ Open(c)
       \/ TryLock(c)
       \/ LockWait(c)
       \/ ReturnWaiter(c)
       \/ WriteComment(c)
       \/ WriteBytes(c)
       \/ Return(c)

SpecMaybe == InitMaybe /\ [][NextMaybe]_vars

(***************************************************************************)
(* Vocabulary of the properties                                            *)
(***************************************************************************)

Done(c) == pc[c] = "done"

ReturnedOk(c) == Done(c) /\ result[c].kind = "Ok"

\* What a non-dry call means the file to hold: the header, if any, followed
\* by the formatted bytes.
FullContent(c) == args[c].comment \o bytes[c]

ContentIn(fs, p) == IF p \in DOMAIN fs THEN fs[p] ELSE <<>>

NoFault == \A c \in Calls : ~faulty[c]

\* The calls that were made.
Made == {c \in Calls : pc[c] # "idle"}

(***************************************************************************)
(* Concurrent calls with identical content                                 *)
(***************************************************************************)

\* C1: when three or more non-dry calls with identical tokens, filename base,
\* header and directory run concurrently and no open, lock or write fails,
\* then once all have returned every call returned Ok, all returned the same
\* Reference, and the file holds exactly the header followed by the bytes.
C1_ConcurrentIdenticalCallsLeaveOneCopy ==
    ( /\ Cardinality(Made) >= 3
      /\ \A c, d \in Made : args[c] = args[d] /\ ~args[c].dry
      /\ NoFault
      /\ \A c \in Made : Done(c) )
    => \A c, d \in Made :
          /\ result[c].kind = "Ok"
          /\ result[c] = result[d]
          /\ Content(dest[c]) = FullContent(c)

\* C2: when a call returns a Reference, and every call on that path has the
\* same content to write and nothing failed, the file at the path holds the
\* full content at that moment.
C2_FileCompleteWhenCallReturns ==
    [][ \A c \in Calls :
          ( /\ pc[c] # "done"
            /\ pc'[c] = "done"
            /\ result'[c].kind = "Ok"
            /\ ~args[c].dry
            /\ \A d \in Calls : dest[d] = dest[c] => FullContent(d) = FullContent(c)
            /\ \A d \in Calls : ~faulty'[d] )
          => ContentIn(files', dest[c]) = FullContent(c) ]_vars

(***************************************************************************)
(* The dry bypass and the formatting policy                                *)
(***************************************************************************)

\* The rustfmt subprocess of call c ran to its end and exited non-zero.
RustfmtExitedNonZero(c) == subenv[c] = "runs" /\ ~RustfmtSuccess(token_str(c))

\* The rustfmt subprocess of call c failed in any way.
RustfmtFailed(c) == subenv[c] \in {"spawn_err", "stdin_err", "wait_err"} \/ RustfmtExitedNonZero(c)

\* Call c is the only call that resolved to its destination path.
Alone(c) == \A d \in Calls \ {c} : dest[d] # dest[c]

\* C3: a call on an Expander with dry = true returns its input tokens
\* unchanged, whatever the comment and the formatting policy, and makes no
\* system operation: no subprocess, no open, no lock, no write.
C3_DryReturnsTokensAndTouchesNothing ==
    \A c \in Made :
       args[c].dry =>
          /\ pc[c] \in {"start", "done"}
          /\ ops[c] = <<>>
          /\ ~locked[c]
          /\ dest[c] = ""
          /\ Done(c) => result[c] = Ok(args[c].tokens)

C3_Witness ==
    \E c \in Made :
       /\ args[c].dry /\ Done(c)
       /\ args[c].rustfmt.yes /\ args[c].comment # None
       /\ \E d \in Made : d # c /\ ~args[d].dry /\ ReturnedOk(d)

\* C4: when rustfmt is enabled with allow_failure = true and the subprocess
\* runs and exits non-zero, the formatting step yields the unformatted
\* input, the call does not fail for it (only a failing open or write can
\* make it Err), and the file the call writes holds the header followed by
\* that unformatted text.
C4_ToleratedFailureKeepsRawText ==
    \A c \in Made :
       (args[c].rustfmt.yes /\ args[c].rustfmt.allow_failure /\ RustfmtExitedNonZero(c)) =>
          /\ bytes[c] = token_str(c)
          /\ dest[c] # ""
          /\ ~faulty[c] => result[c].kind \in {"pending", "Ok"}
          /\ (Alone(c) /\ ~faulty[c] /\ pc[c] \in {"return", "done"}) =>
                Content(dest[c]) = args[c].comment \o token_str(c)

C4_Witness ==
    \E c \in Made :
       /\ args[c].rustfmt.yes /\ args[c].rustfmt.allow_failure /\ RustfmtExitedNonZero(c)
       /\ ReturnedOk(c) /\ Alone(c) /\ ~faulty[c]
       /\ args[c].comment # None
       /\ Content(dest[c]) = args[c].comment \o token_str(c)

\* C5: when rustfmt is enabled with allow_failure = false and the
\* subprocess fails, the call returns an error and has made no operation on
\* the file system: it opened, created, truncated, locked and wrote nothing.
C5_StrictFailureWritesNothing ==
    \A c \in Made :
       (args[c].rustfmt.yes /\ ~args[c].rustfmt.allow_failure /\ RustfmtFailed(c)) =>
          /\ Done(c)
          /\ result[c].kind = "Err"
          /\ ops[c] = <<"spawn">>
          /\ ~locked[c]
          /\ dest[c] = ""

C5_Witness ==
    \E c \in Made :
       /\ args[c].rustfmt.yes /\ ~args[c].rustfmt.allow_failure /\ RustfmtExitedNonZero(c)
       /\ Done(c) /\ result[c] = Err("rustfmt failed")
       /\ files = [p \in {} |-> <<>>]
       /\ \A d \in Made : Done(d)

(***************************************************************************)
(* Two calls one after the other (SpecSeq)                                 *)
(***************************************************************************)

Did(c, op) == \E i \in 1..Len(ops[c]) : ops[c][i] = op

\* Both calls were made, were not dry, returned Ok, and nothing failed.
BothReturnedOk ==
    /\ \A c \in PairCalls : ~args[c].dry /\ ReturnedOk(c)
    /\ NoFault

\* C6 as claimed: two calls one after the other with identical arguments
\* return the same Reference, only one of the two truncates or writes the
\* file, and the file holds one copy of the header and the bytes.
C6_OnlyOneOfTwoCallsWrites ==
    BothReturnedOk =>
       /\ \A c, d \in PairCalls : result[c] = result[d]
       /\ Cardinality({c \in PairCalls : Did(c, "open") \/ Did(c, "write")}) = 1
       /\ \A c \in PairCalls : Content(dest[c]) = FullContent(c)

\* C6 amended: two calls one after the other with identical arguments
\* return the same Reference; each of them truncates the file when it opens
\* it (the file is empty when the second call probes the lock), takes the
\* lock and writes the content again; after the second call the file holds
\* exactly one copy of the header followed by the bytes.
C6_BothCallsRewriteTheSameFile ==
    /\ \A c, d \in PairCalls :
          (Done(d) /\ c # d /\ pc[c] = "probe") => Content(dest[c]) = <<>>
    /\ BothReturnedOk =>
          /\ \A c, d \in PairCalls : result[c] = result[d]
          /\ \A c \in PairCalls :
                /\ SelectSeq(ops[c], LAMBDA op : op # "spawn")
                     = <<"open", "try_lock">>
                        \o (IF args[c].comment # None THEN <<"write">> ELSE <<>>) \o <<"write">>
                /\ Content(dest[c]) = FullContent(c)

C6_Witness ==
    /\ BothReturnedOk
    /\ \A c \in PairCalls : args[c].comment # None /\ args[c].rustfmt.yes /\ Did(c, "spawn")
    /\ \A c \in PairCalls : Content(dest[c]) = FullContent(c) /\ Len(bytes[c]) > 0

(***************************************************************************)
(* Naming                                                                  *)
(***************************************************************************)

\* Both calls got as far as deriving their destination path.
Resolved(c, d) == c # d /\ dest[c] # "" /\ dest[d] # ""

SameBase(c, d) == args[c].filename_base = args[d].filename_base

\* C7: for one filename base (and the one directory), two calls resolve to
\* the same path exactly when their formatted bytes are equal, whatever
\* their header comments, policies and the order in which they ran.
C7_SamePathIffSameBytes ==
    \A c, d \in Made :
       (Resolved(c, d) /\ SameBase(c, d)) => (dest[c] = dest[d] <=> bytes[c] = bytes[d])

C7_Witness ==
    \E c, d \in Made :
       /\ Resolved(c, d) /\ SameBase(c, d)
       /\ dest[c] = dest[d]
       /\ args[c].comment # args[d].comment
       /\ args[c].tokens # args[d].tokens
       /\ args[c].rustfmt # args[d].rustfmt
       /\ ReturnedOk(c) /\ ReturnedOk(d)

\* C8 as claimed: two calls with the same filename base and different input
\* text resolve to different paths, for every formatting policy.
C8_DifferentTextDifferentPath ==
    \A c, d \in Made :
       (Resolved(c, d) /\ SameBase(c, d) /\ token_str(c) # token_str(d)) => dest[c] # dest[d]

\* C8 amended: two calls with the same filename base and different input
\* text resolve to different paths whenever their formatted bytes differ,
\* in particular whenever both texts are written unformatted (formatting
\* disabled, or a tolerated formatter failure).
C8_DifferentBytesDifferentPath ==
    \A c, d \in Made :
       (Resolved(c, d) /\ SameBase(c, d) /\ token_str(c) # token_str(d)) =>
          /\ bytes[c] # bytes[d] => dest[c] # dest[d]
          /\ (bytes[c] = token_str(c) /\ bytes[d] = token_str(d)) => dest[c] # dest[d]

C8_Witness ==
    \E c, d \in Made :
       /\ Resolved(c, d) /\ SameBase(c, d) /\ token_str(c) # token_str(d)
       /\ ~args[c].rustfmt.yes /\ bytes[c] = token_str(c)
       /\ RustfmtExitedNonZero(d) /\ bytes[d] = token_str(d)
       /\ dest[c] # dest[d]
       /\ ReturnedOk(c) /\ ReturnedOk(d)

(***************************************************************************)
(* Formatting disabled, formatter unavailable                              *)
(***************************************************************************)

\* Call c has RustFmt::No and is past the formatting step.
FormattedWithNo(c) == ~args[c].rustfmt.yes /\ ~args[c].dry /\ pc[c] # "start"

C10_UnavailableFormatterIsTolerated ==
    \A c \in Made :
       ( /\ args[c].rustfmt.yes /\ args[c].rustfmt.allow_failure
         /\ subenv[c] \in {"spawn_err", "stdin_err"} ) =>
          /\ bytes[c] = token_str(c)
          /\ ~faulty[c] => result[c].kind \in {"pending", "Ok"}

(***************************************************************************)
(* maybe_write_to (SpecMaybe)                                              *)
(***************************************************************************)

\* The call of maybe_write_to was given an Err.
GivenSynErr(c) == IsMaybe(c) /\ args[c].maybe_tokens.kind = "Err"

\* Both calls returned, nothing failed under either, and the formatter
\* subprocess met the same fate under both.
SameRun(c, d) ==
    /\ Done(c) /\ Done(d)
    /\ ~faulty[c] /\ ~faulty[d]
    /\ subenv[c] = subenv[d]

\* C11: maybe_write_to given an Err(syn::Error) returns Ok(Err(that error))
\* and formats nothing, spawns nothing and touches no file, for every
\* configuration, dry or not; given Ok(tokens) it does what write_to does
\* on the same Expander and tokens: the same operations in the same order,
\* the same bytes and path, and the result of write_to, an Ok wrapped in Ok
\* and an error as it is.
C11_MaybeWriteToForwardsOrHandsBack ==
    /\ GivenSynErr(MaybeCall) =>
          /\ pc[MaybeCall] \in {"maybe", "done"}
          /\ ops[MaybeCall] = <<>>
          /\ subenv[MaybeCall] = "none"
          /\ bytes[MaybeCall] = <<>> /\ dest[MaybeCall] = ""
          /\ ~locked[MaybeCall]
          /\ Done(MaybeCall) => result[MaybeCall] = Ok(SynError)
          /\ Done(MaybeCall) => \A p \in DOMAIN files : p = dest[PlainCall]
    /\ (~GivenSynErr(MaybeCall) /\ SameRun(MaybeCall, PlainCall)) =>
          /\ ops[MaybeCall] = ops[PlainCall]
          /\ bytes[MaybeCall] = bytes[PlainCall]
          /\ dest[MaybeCall] = dest[PlainCall]
          /\ result[MaybeCall] = Wrapped(MaybeCall, result[PlainCall])
          /\ result[PlainCall].kind = "Ok" =>
                /\ result[MaybeCall].kind = "Ok"
                /\ result[MaybeCall].val = result[PlainCall]

C11_Witness ==
    /\ GivenSynErr(MaybeCall) /\ Done(MaybeCall) /\ ~args[MaybeCall].dry
    /\ args[MaybeCall].rustfmt.yes
    /\ ReturnedOk(PlainCall) /\ Did(PlainCall, "write")

C11_WitnessForwarded ==
    /\ ~GivenSynErr(MaybeCall) /\ SameRun(MaybeCall, PlainCall)
    /\ ReturnedOk(PlainCall) /\ Did(MaybeCall, "spawn") /\ Did(MaybeCall, "write")

(***************************************************************************)
(* Locking discipline                                                      *)
(***************************************************************************)

\* Some call holds the exclusive lock on the file at p.
LockHeld(p) == \E c \in Calls : locked[c] /\ dest[c] = p

\* C12: every change of the content of a destination file, a truncation or
\* a write, is made while a call holds the exclusive lock on that file; in
\* particular the open creates the file without changing what it holds.
\* Stated for the runs in which no open, lock or write fails.
C12_FileChangesOnlyUnderTheLock ==
    [][ \A p \in DOMAIN files' :
          (NoFault' /\ ContentIn(files', p) # ContentIn(files, p)) => LockHeld(p) ]_vars

\* The non-blocking probe of call c failed because the lock was held, not
\* by a platform error, and no later step of c failed either.
Contended(c) == ~faulty[c] /\ (pc[c] \in {"wait", "waited"} \/ Did(c, "lock"))

\* What a call does up to and including its probe.
UpToProbe(c) == (IF Did(c, "spawn") THEN <<"spawn">> ELSE <<>>) \o <<"open", "try_lock">>

\* C13: a call whose lock probe fails because another call holds the lock
\* does not fail: it waits on the blocking acquisition, gets the lock only
\* when no other call holds it, makes no write and no truncation after the
\* probe, and returns Ok with the Reference to its path, the one the calls
\* that wrote to that path return.
C13_LoserWaitsAndReturnsTheSameReference ==
    \A c \in Made :
       Contended(c) =>
          /\ result[c].kind \in {"pending", "Ok"}
          /\ pc[c] = "wait" => (ops[c] = UpToProbe(c) /\ ~locked[c])
          /\ pc[c] = "waited" =>
                /\ ops[c] = UpToProbe(c) \o <<"lock">>
                /\ locked[c]
                /\ \A d \in Calls \ {c} : ~(locked[d] /\ dest[d] = dest[c])
          /\ Done(c) =>
                /\ ops[c] = UpToProbe(c) \o <<"lock">>
                /\ ~locked[c]
                /\ result[c] = Ok(IncludeRef(dest[c]))
                /\ \A d \in Made :
                      (dest[d] = dest[c] /\ ReturnedOk(d)) => result[d] = result[c]

C13_Witness ==
    \E c, d \in Made :
       /\ c # d /\ Contended(c) /\ Done(c)
       /\ ~Contended(d) /\ ReturnedOk(d) /\ Did(d, "write")
       /\ dest[d] = dest[c] /\ result[d] = result[c]
       /\ NoFault

(***************************************************************************)
(* Termination (SpecFair)                                                  *)
(***************************************************************************)

\* write_to handed a Result back to its caller.
Returned(c) == Done(c) /\ result[c].kind \in {"Ok", "Err"}

\* C14: under fair scheduling every call eventually returns, Ok or Err,
\* and every call that waits in the blocking acquisition eventually gets
\* the lock.
C14_EveryCallEventuallyReturns ==
    \A c \in Calls :
       /\ <>Returned(c)
       /\ (pc[c] = "wait") ~> (pc[c] = "waited")

\* C14 as far as it holds: every call ends, by a return or by the panic of
\* the blocking acquisition, and a call that waits gets the lock unless the
\* acquisition itself fails; no call waits for ever.
C14_EveryCallEndsOrPanics ==
    \A c \in Calls :
       /\ <>Done(c)
       /\ (pc[c] = "wait") ~> (pc[c] = "waited" \/ result[c] = Panicked)

(***************************************************************************)
(* Platform lock failures                                                  *)
(***************************************************************************)

\* A lock operation of call c failed at the platform: c is marked faulty
\* after its probe and before any write.
LockFailed(c) == faulty[c] /\ Did(c, "try_lock") /\ ~Did(c, "write")

\* C15: a lock failure of the platform that is not contention is fatal and
\* is returned as an io::Error: after such a failure of the probe the call
\* does not go on to wait and return a Reference, and after such a failure
\* of the blocking acquisition it returns Err, without a panic.
C15_LockFailureIsReturnedAsError ==
    \A c \in Made :
       LockFailed(c) => (Done(c) /\ result[c].kind = "Err")

(***************************************************************************)
(* Content behind one path                                                 *)
(***************************************************************************)

\* C16: any two calls that resolve to the same destination path mean to
\* write the same file content, the header followed by the formatted bytes,
\* also when they have the same tokens and different header comments.
C16_SamePathSameContent ==
    \A c, d \in Made :
       (Resolved(c, d) /\ dest[c] = dest[d]) => FullContent(c) = FullContent(d)

(***************************************************************************)
(* Side effects of one call                                                *)
(***************************************************************************)

\* How often call c made the operation op.
Count(c, op) == Len(SelectSeq(ops[c], LAMBDA o : o = op))

\* The step is one of call c.
StepOf(c) == pc'[c] # pc[c]

\* The file at p is created or its content changed by the step.
Touched(p) == p \notin DOMAIN files \/ files'[p] # files[p]

\* C17: one call of write_to spawns at most one formatter subprocess, as
\* its first operation, and the subprocess has run to its end before the
\* call opens a file; the call opens one file only, at the path derived
\* from its filename base and its own formatted bytes, and creates or
\* changes no other file.
C17_OneSubprocessOneFile ==
    /\ [](\A c \in Made :
            /\ Count(c, "spawn") <= 1
            /\ Count(c, "open") <= 1
            /\ \A i \in 2..Len(ops[c]) : ops[c][i] # "spawn"
            /\ Did(c, "open") =>
                  /\ subenv[c] \in {"none", "runs"}
                  /\ dest[c] = DestPath(args[c].filename_base, bytes[c])
                  /\ dest[c] \in DOMAIN files)
    /\ [](\A p \in DOMAIN files : \E c \in Made : Did(c, "open") /\ dest[c] = p)
    /\ [][ \A c \in Calls :
             StepOf(c) => \A p \in DOMAIN files' : Touched(p) => p = dest'[c] ]_vars

C17_Witness ==
    \E c, d \in Made :
       /\ ReturnedOk(c) /\ ReturnedOk(d) /\ NoFault
       /\ Did(c, "spawn") /\ Did(c, "write") /\ Did(d, "write")
       /\ dest[c] # dest[d]
       /\ DOMAIN files = {dest[c], dest[d]}

(***************************************************************************)
(* The fallback of the `pretty` build                                      *)
(***************************************************************************)

\* Call c is past the formatting step of a build with the `pretty` feature.
FormattedPretty(c) == feature_pretty /\ ~args[c].dry /\ pc[c] # "start"

\* The errors run_rustfmt_on_content returns.
RustfmtErrors == {"spawn", "stdin", "wait", "rustfmt failed"}

\* The call did not fail by the parse error: if it failed without an open,
\* lock or write error, it failed by an error of the rustfmt subprocess.
NotFailedByParse(c) ==
    (Done(c) /\ result[c].kind = "Err" /\ ~faulty[c]) =>
       (Did(c, "spawn") /\ RustfmtFailed(c) /\ result[c].val \in RustfmtErrors)

GuardAlive(c) == pc[c] \in {"comment", "bytes", "return", "waited"}

\* C19: in every reachable state a call that has returned, Ok or Err, as
\* the winner, as a waiter or after a failed write, holds no lock: a lock
\* is held only by a call that is between its acquisition and its return.
C19_ReturnedCallHoldsNoLock ==
    \A c \in Calls :
       /\ Done(c) => ~locked[c]
       /\ locked[c] => GuardAlive(c)

C19_Witness ==
    \E c, d, e \in Made :
       /\ Done(c) /\ Done(d) /\ Done(e) /\ \A x \in Calls : ~locked[x]
       /\ ReturnedOk(c) /\ Did(c, "write") /\ ~faulty[c]
       /\ ReturnedOk(d) /\ Contended(d)
       /\ result[e].kind = "Err" /\ Did(e, "write")

(***************************************************************************)
(* A complete file stays complete                                          *)
(***************************************************************************)

\* Call c returned a Reference and the file at its path holds all of the
\* content c means it to hold.
ReturnedComplete(c) ==
    ReturnedOk(c) /\ ~args[c].dry /\ Content(dest[c]) = FullContent(c)

\* C20: once a call has returned a Reference to a path with the file there
\* complete, the file stays complete in every later state, through every
\* step of a later or overlapping call that resolves to the same path.
\* Stated for calls that mean the same content for the path and for runs
\* in which no open, lock or write fails.
C20_CompleteFileStaysComplete ==
    [][ \A c \in Calls :
          ( /\ ReturnedComplete(c)
            /\ \A d \in Calls : dest[d] = dest[c] => FullContent(d) = FullContent(c)
            /\ NoFault' )
          => ContentIn(files', dest[c]) = FullContent(c) ]_vars

(***************************************************************************)
(* A write that fails partway                                              *)
(***************************************************************************)

\* Call c held the lock and failed with an io::Error in one of its writes.
WriteFailed(c) == Done(c) /\ result[c].kind = "Err" /\ Did(c, "write")

\* C21: when the call holding the lock fails partway through its writes, no
\* call that waited on the lock for that path, with the same content to
\* write, returns Ok with a Reference to an incomplete file: it writes the
\* full content itself or returns an error.
C21_NoReferenceToPartialFile ==
    \A c, d \in Made :
       ( /\ c # d /\ args[c] = args[d] /\ dest[c] = dest[d]
         /\ WriteFailed(d)
         /\ Contended(c) /\ ReturnedOk(c)
         /\ \A e \in Calls \ {d} : ~faulty[e] )
       => Content(dest[c]) = FullContent(c)

====
